---- MODULE Spec2Model ----
(***************************************************************************)
(* radio-curses: the player session (Mpv), the metadata poller thread and  *)
(* the UI thread of Main, as a state machine.                              *)
(*                                                                         *)
(* Spec      : the UI thread, the poller thread and the mpv processes.     *)
(* SpecView  : the record tree and the List viewport under every key.      *)
(* SpecSteps : one List under scroll_down / scroll_up from the top.        *)
(* SpecList  : one List over a static list under every key of the List.    *)
(* SpecRefresh : List.refresh called twice from any values of its fields.  *)
(* SpecFav   : the favourites record under add_record and the two moves.   *)
(* SpecNav   : Main.right and Main.left over directories inside directories.*)
(* SpecRecord : Record.isdir and Record.isaudio over any attributes.       *)
(* SpecPaint : the rows of the list window under scroll_down and scroll_up.*)
(* SpecEmpty : every key of Main over a record without children.           *)
(* SpecResize : the walk of SpecNav while the terminal changes its size.    *)
(* SpecTitle : the threads while stations are selected, with the station   *)
(*             each player process was started for.                        *)
(*                                                                         *)
(* Main.refresh_all runs at start and after the help screen; the SIGWINCH  *)
(* handler, which runs it too, is followed on the list window only, by      *)
(* SpecResize. Thread.start is one step.                                   *)
(***************************************************************************)
EXTENDS Integers, Sequences, FiniteSets, TLC

(* ---------------------------------------------------------------- bounds *)

\* how many player processes the model tells apart at one time
MaxProcs == 2
\* how deep the UI thread may re-enter status_lock through signal handlers
MaxNesting == 2
\* most children the root record gets from its outline document
MaxLen == 3
\* most children a fetched sub-directory gets
MaxSub == 2
\* most rows of the list window (the capacity)
MaxRows == 3
\* most scroll_down / scroll_up calls in one sequence of SpecSteps
MaxSteps == 5
\* most children of the static list of SpecList
MaxItems == 5
\* largest value of List.cur and List.idx that SpecRefresh starts from
MaxField == 6
\* most from_url calls Main.right makes for one directory
MaxFetch == 2
\* audio outlines that can be offered to Favourites.add_record
MaxCand == 5
\* distinct values of the URL attribute among the records offered
MaxURLs == 3

(* ------------------------------------------------------------ input sets *)

\* texts of the playable records the user may press Enter on
Stations == {"s1", "s2"}

\* raw 'icy-title' values mpv may report, as sequences of characters
RawTitles == {<<"a">>, <<"a", " ">>, <<"b">>, <<>>}

Pids == 1..MaxProcs

\* Python's None for Mpv.proc
NoProc == 0

\* the peer of a connection whose process has exited
ClosedPeer == MaxProcs + 1

(* ------------------------------------------------------------- variables *)

VARIABLES
    \* ---- UI thread (Main, running on the main thread)
    uiPc,          \* position of the UI thread
    uiCont,        \* where Main.status returns to on the UI thread
    uiText,        \* argument s of the UI thread's Main.status call
    msCont,        \* where Mpv.stop returns to
    uiNew,         \* the Popen object created but not yet stored in Mpv.proc
    prevProc,      \* Mpv.proc as it was when Mpv.start was called
    \* ---- shared objects of Main
    status_lock,   \* RLock: [owner, count]
    stop_meta,     \* Event
    refresh_meta,  \* Event
    thread_meta,   \* "none" | "started"
    radio,         \* Main.radio
    statusWin,     \* content of the status row (row 1 of win3)
    \* ---- Mpv session and the operating system
    proc,          \* Mpv.proc: a pid or NoProc
    alive,         \* pids of the spawned players that are running
    termSent,      \* pids sent SIGTERM by the Mpv.stop of the Mpv.start under way
    socketFile,    \* os.path.exists(Mpv.socket)
    listener,      \* pid accepting connections on the socket file, or NoProc
    \* ---- poller thread (Main.poll_metadata)
    pollPc,        \* position of the poller thread
    prev_song,     \* <<>> for None, <<t>> for the title t
    song,          \* local 'song' after rstrip: <<>> for None/empty, <<t>>
    resp,          \* the dict returned by Mpv.get_metadata
    pollText,      \* argument s of the poller's Main.status call
    conn,          \* pid the poller's client socket is connected to
    partial,       \* socket2json has buffered bytes without a newline
    pollErr,       \* the exception that ended the poller thread, or "none"
    \* ---- history of the current send_command call
    scAbsent,      \* os.path.exists found the socket file absent in this call
    scWaits,       \* a retry wait stop.wait(2) was performed in this call
    scCancelled,   \* stop.wait(2) returned True in this call
    connAbsent,    \* connect() was attempted while the socket file was absent
    \* ---- history of the titles, kept by SpecTitle
    playing,       \* pid |-> the station whose URL the process was started with
    heard,         \* the station of the process that sent the title the poller
                   \* holds, or "" when it holds none
    \* ---- the record tree and the list window (Main.record, Main.win)
    rows,          \* rows of the list window: win.getmaxyx()[0]
    gapfix,        \* the List of curses_utils/list1.py (TRUE) or of curses_utils.py
    children,      \* Record.children of every directory record
    record,        \* Main.record: the record whose children are listed
    pos,           \* Record.pos of every directory record: <<cur, idx>>
    viewErr,       \* the exception that left Main.right, or "none"
    \* ---- history of the walk through the directories, kept by SpecNav
    fetches,       \* from_url calls made by Main.right, per directory
    entered,       \* the directories that have been listed
    \* ---- the curses window of the List, kept by SpecPaint
    screen,        \* row k |-> [child, hl]: the child whose text is on the row
                   \* (-1 blank, -2 a text written over another) and its attribute
    cur,           \* List.cur
    idx,           \* List.idx
    \* ---- history of the steps taken from the top of a list
    steps,         \* calls made on the List since the initial state
    net,           \* scroll_down calls minus scroll_up calls
    clean,         \* every prefix of the calls had its net count in 0 .. length-1
    \* ---- the favourites record (db.py)
    favourites,    \* Favourites.children
    call,          \* the last call made on the favourites record: <<name, argument>>
    ret,           \* the bool that call returned
    rec,           \* a record of any attributes: [d, kids], its dict and its
                   \* number of children
    loaded         \* the dicts of the children of the Favourites record that the
                   \* last call read back from favourites.opml, if it read one

uiVars == <<uiPc, uiCont, uiText, msCont, uiNew, prevProc>>
mainVars == <<status_lock, stop_meta, refresh_meta, thread_meta, radio, statusWin>>
mpvVars == <<proc, alive, termSent, socketFile, listener>>
pollVars == <<pollPc, prev_song, song, resp, pollText, conn, partial, pollErr>>
histVars == <<scAbsent, scWaits, scCancelled, connAbsent>>
titleVars == <<playing, heard>>

threadVars == <<uiVars, mainVars, mpvVars, pollVars, histVars, titleVars>>
treeVars == <<rows, gapfix, children, record, pos, viewErr>>
walkVars == <<fetches, entered>>
paintVars == <<screen>>
viewVars == <<treeVars, cur, idx>>
stepVars == <<steps, net, clean>>
favVars == <<favourites, call, ret, rec, loaded>>

vars == <<threadVars, viewVars, stepVars, favVars, walkVars, paintVars>>

(* ----------------------------------------------------------------- texts *)

Blank == [kind |-> "blank", st |-> "", title |-> <<>>]
StartText(s) == [kind |-> "start", st |-> s, title |-> <<>>]
SongText(s, t) == [kind |-> "song", st |-> s, title |-> t]
BareText(s) == [kind |-> "bare", st |-> s, title |-> <<>>]
ClosingText == [kind |-> "closing", st |-> "", title |-> <<>>]

\* str.rstrip(): drop the trailing whitespace characters
RECURSIVE rstrip(_)
rstrip(t) ==
    IF t # <<>> /\ t[Len(t)] = " " THEN rstrip(SubSeq(t, 1, Len(t) - 1)) ELSE t

(* ------------------------------------------------------------- responses *)

\* {}: what send_command returns on every handled failure
EmptyResp == [data |-> FALSE, title |-> <<>>]
\* a response whose 'data' is a non-empty dict without 'icy-title'
NoTitleResp == [data |-> TRUE, title |-> <<>>]
\* a response whose 'data' carries 'icy-title': t
TitleResp(t) == [data |-> TRUE, title |-> <<t>>]

\* the JSON objects mpv may answer get_property metadata with
Responses == {EmptyResp, NoTitleResp} \cup {TitleResp(t) : t \in RawTitles}

(* ------------------------------------------------------------------ Init *)

Free == [owner |-> "none", count |-> 0]

ThreadInit ==
    /\ uiPc = "ra_erase"
    /\ uiCont = "idle"
    /\ uiText = Blank
    /\ msCont = "idle"
    /\ uiNew = NoProc
    /\ prevProc = NoProc
    /\ status_lock = Free
    /\ stop_meta = FALSE
    /\ refresh_meta = FALSE
    /\ thread_meta = "none"
    /\ radio = ""
    /\ statusWin = Blank
    /\ proc = NoProc
    /\ alive = {}
    /\ termSent = {}
    /\ socketFile \in BOOLEAN
    /\ listener = NoProc
    /\ pollPc = "notstarted"
    /\ prev_song = <<>>
    /\ song = <<>>
    /\ resp = EmptyResp
    /\ pollText = Blank
    /\ conn = NoProc
    /\ partial = FALSE
    /\ pollErr = "none"
    /\ scAbsent = FALSE
    /\ scWaits = FALSE
    /\ scCancelled = FALSE
    /\ connAbsent = FALSE
    /\ playing = [p \in Pids |-> ""]
    /\ heard = ""

\* the threads before Main.run, for the specifications of the list window
ThreadIdle ==
    /\ uiPc = "idle" /\ uiCont = "idle" /\ uiText = Blank /\ msCont = "idle"
    /\ uiNew = NoProc /\ prevProc = NoProc
    /\ status_lock = Free /\ stop_meta = FALSE /\ refresh_meta = FALSE
    /\ thread_meta = "none" /\ radio = "" /\ statusWin = Blank
    /\ proc = NoProc /\ alive = {} /\ termSent = {} /\ socketFile = FALSE
    /\ listener = NoProc
    /\ pollPc = "notstarted" /\ prev_song = <<>> /\ song = <<>>
    /\ resp = EmptyResp /\ pollText = Blank /\ conn = NoProc
    /\ partial = FALSE /\ pollErr = "none"
    /\ scAbsent = FALSE /\ scWaits = FALSE /\ scCancelled = FALSE
    /\ connAbsent = FALSE
    /\ playing = [p \in Pids |-> ""] /\ heard = ""

PollerAlive == pollPc \notin {"notstarted", "done", "crashed"}

(* ------------------------------------------------------------ the RLock *)

\* RLock.acquire succeeds for thread t when the lock is free or t owns it
CanAcquire(t) == status_lock.owner \in {"none", t}

Acquired(t) == [owner |-> t, count |-> status_lock.count + 1]

Released ==
    IF status_lock.count <= 1 THEN Free ELSE [status_lock EXCEPT !.count = @ - 1]

(* ------------------------------------------- Main.status on the UI thread *)

UIStatusAcquire ==
    /\ uiPc = "st_acq"
    /\ CanAcquire("ui")
    /\ status_lock' = Acquired("ui")
    /\ uiPc' = "st_erase"
    /\ UNCHANGED <<uiCont, uiText, msCont, uiNew, prevProc>>
    /\ UNCHANGED <<stop_meta, refresh_meta, thread_meta, radio, statusWin>>
    /\ UNCHANGED <<mpvVars, pollVars, histVars>>

\* win = self.win3.derwin(1, cols, 1, 0); win.erase()
UIStatusErase ==
    /\ uiPc = "st_erase"
    /\ statusWin' = Blank
    /\ uiPc' = "st_add"
    /\ UNCHANGED <<uiCont, uiText, msCont, uiNew, prevProc>>
    /\ UNCHANGED <<status_lock, stop_meta, refresh_meta, thread_meta, radio>>
    /\ UNCHANGED <<mpvVars, pollVars, histVars>>

\* win_addstr(win, 0, 0, s); win.refresh()
UIStatusAdd ==
    /\ uiPc = "st_add"
    /\ statusWin' = uiText
    /\ uiPc' = "st_rel"
    /\ UNCHANGED <<uiCont, uiText, msCont, uiNew, prevProc>>
    /\ UNCHANGED <<status_lock, stop_meta, refresh_meta, thread_meta, radio>>
    /\ UNCHANGED <<mpvVars, pollVars, histVars>>

UIStatusRelease ==
    /\ uiPc = "st_rel"
    /\ status_lock' = Released
    /\ uiPc' = uiCont
    /\ uiText' = Blank
    /\ UNCHANGED <<uiCont, msCont, uiNew, prevProc>>
    /\ UNCHANGED <<stop_meta, refresh_meta, thread_meta, radio, statusWin>>
    /\ UNCHANGED <<mpvVars, pollVars, histVars>>

(* ------------------------------------------------------- Main.refresh_all *)

\* self.screen.erase(): win3 is a derwin of screen, its rows are erased too;
\* then self.win.refresh() and self.screen.refresh()
RefreshAllErase ==
    /\ uiPc = "ra_erase"
    /\ statusWin' = Blank
    /\ uiPc' = "ra_border"
    /\ UNCHANGED <<uiCont, uiText, msCont, uiNew, prevProc>>
    /\ UNCHANGED <<status_lock, stop_meta, refresh_meta, thread_meta, radio>>
    /\ UNCHANGED <<mpvVars, pollVars, histVars>>

\* self.win3.border(' ', ' ', ch, ' ', ...): the bottom side, row 1, is ' ';
\* then self.win3.refresh()
RefreshAllBorder ==
    /\ uiPc = "ra_border"
    /\ statusWin' = Blank
    /\ uiPc' = "ra_set"
    /\ UNCHANGED <<uiCont, uiText, msCont, uiNew, prevProc>>
    /\ UNCHANGED <<status_lock, stop_meta, refresh_meta, thread_meta, radio>>
    /\ UNCHANGED <<mpvVars, pollVars, histVars>>

\* self.refresh_meta.set(), then back to the input loop
RefreshAllSet ==
    /\ uiPc = "ra_set"
    /\ refresh_meta' = TRUE
    /\ uiPc' = "idle"
    /\ UNCHANGED <<uiCont, uiText, msCont, uiNew, prevProc>>
    /\ UNCHANGED <<status_lock, stop_meta, thread_meta, radio, statusWin>>
    /\ UNCHANGED <<mpvVars, pollVars, histVars>>

(* ------------------------------------------------------------- the keys *)

\* 'h': win_help, any key, then refresh_all
KeyHelp ==
    /\ uiPc = "idle"
    /\ uiPc' = "ra_erase"
    /\ UNCHANGED <<uiCont, uiText, msCont, uiNew, prevProc>>
    /\ UNCHANGED <<mainVars, mpvVars, pollVars, histVars>>

\* Enter on a record with isaudio(): start_player up to the status call
KeyEnter(s) ==
    /\ uiPc = "idle"
    /\ radio' = s
    /\ prevProc' = proc
    /\ uiText' = StartText(s)
    /\ uiCont' = "ms_term"
    /\ msCont' = "sp_popen"
    /\ uiPc' = "st_acq"
    /\ UNCHANGED uiNew
    /\ UNCHANGED <<status_lock, stop_meta, refresh_meta, thread_meta, statusWin>>
    /\ UNCHANGED <<mpvVars, pollVars, histVars>>

\* Main.shutdown up to the status call; it never returns to its caller, so
\* what the interrupted call had at hand (uiNew, prevProc, termSent) is dropped
BeginShutdown ==
    /\ uiText' = ClosingText
    /\ uiCont' = "sd_check"
    /\ msCont' = "sd_exit"
    /\ uiPc' = "st_acq"
    /\ uiNew' = NoProc
    /\ prevProc' = NoProc
    /\ termSent' = {}
    /\ UNCHANGED <<proc, alive, socketFile, listener>>

\* 'q' in App.getch
KeyQuit ==
    /\ uiPc = "idle"
    /\ BeginShutdown
    /\ UNCHANGED <<mainVars, pollVars, histVars>>

\* SIGINT or SIGTERM: the handler Main.shutdown runs on the main thread,
\* wherever that thread is
Signal ==
    /\ uiPc # "exited"
    /\ status_lock.owner = "ui" => status_lock.count < MaxNesting
    /\ BeginShutdown
    /\ UNCHANGED <<mainVars, pollVars, histVars>>

(* --------------------------------------------------------------- Mpv.stop *)

\* a faulty wait that returns although the process still runs
ProcWaitDoneAtOnce(p) == TRUE

\* self.proc.wait(): returns once the process has exited
ProcWaitDone(p) == p \notin alive

\* if self.proc is not None: self.proc.terminate()
MpvStopTerminate ==
    /\ uiPc = "ms_term"
    /\ IF proc # NoProc
          THEN /\ termSent' = termSent \cup {proc}
               /\ uiPc' = "ms_wait"
          ELSE /\ termSent' = termSent
               /\ uiPc' = "ms_rm"
    /\ UNCHANGED <<uiCont, uiText, msCont, uiNew, prevProc>>
    /\ UNCHANGED <<proc, alive, socketFile, listener>>
    /\ UNCHANGED <<mainVars, pollVars, histVars>>

\* self.proc.wait()
MpvStopWait ==
    /\ uiPc = "ms_wait"
    /\ ProcWaitDone(proc)
    /\ uiPc' = "ms_rm"
    /\ UNCHANGED <<uiCont, uiText, msCont, uiNew, prevProc>>
    /\ UNCHANGED <<mainVars, mpvVars, pollVars, histVars>>

\* if os.path.exists(self.socket): os.remove(self.socket); self.proc = None
MpvStopRemove ==
    /\ uiPc = "ms_rm"
    /\ socketFile' = FALSE
    /\ proc' = NoProc
    /\ uiPc' = msCont
    /\ UNCHANGED <<uiCont, uiText, msCont, uiNew, prevProc>>
    /\ UNCHANGED <<alive, termSent, listener>>
    /\ UNCHANGED <<mainVars, pollVars, histVars>>

(* -------------------------------------------------------------- Mpv.start *)

\* the pids a new process may get: those of no running process
FreePids == Pids \ alive

\* subprocess.Popen(cmd, ...): the new player runs from here on
MpvStartPopen ==
    /\ uiPc = "sp_popen"
    /\ FreePids # {}
    /\ LET new == CHOOSE p \in FreePids : \A q \in FreePids : p <= q
       IN /\ alive' = alive \cup {new}
          /\ uiNew' = new
          /\ termSent' = termSent \ {new}
    /\ uiPc' = "sp_assign"
    /\ UNCHANGED <<uiCont, uiText, msCont, prevProc>>
    /\ UNCHANGED <<proc, socketFile, listener>>
    /\ UNCHANGED <<mainVars, pollVars, histVars>>

\* self.proc = <the Popen object>
MpvStartAssign ==
    /\ uiPc = "sp_assign"
    /\ proc' = uiNew
    /\ uiNew' = NoProc
    /\ prevProc' = NoProc
    /\ termSent' = {}
    /\ uiPc' = "sp_thread"
    /\ UNCHANGED <<uiCont, uiText, msCont>>
    /\ UNCHANGED <<alive, socketFile, listener>>
    /\ UNCHANGED <<mainVars, pollVars, histVars>>

(* ------------------------------------------- Main.start_player, its end *)

\* a faulty test that looks at whether the thread is running
NoThreadRunning == thread_meta = "none" \/ ~PollerAlive

\* not self.thread_meta
NoThreadYet == thread_meta = "none"

\* if not self.thread_meta: create the Thread and start it
StartPlayerThread ==
    /\ uiPc = "sp_thread"
    /\ IF NoThreadYet
          THEN /\ thread_meta' = "started"
               /\ pollPc' = "wait5"
          ELSE UNCHANGED <<thread_meta, pollPc>>
    /\ uiPc' = "idle"
    /\ UNCHANGED <<uiCont, uiText, msCont, uiNew, prevProc>>
    /\ UNCHANGED <<status_lock, stop_meta, refresh_meta, radio, statusWin>>
    /\ UNCHANGED <<prev_song, song, resp, pollText, conn, partial, pollErr>>
    /\ UNCHANGED <<mpvVars, histVars>>

(* ---------------------------------------------------------- Main.shutdown *)

\* if self.thread_meta and self.thread_meta.is_alive(): self.stop_meta.set()
ShutdownCheck ==
    /\ uiPc = "sd_check"
    /\ IF thread_meta = "started" /\ PollerAlive
          THEN /\ stop_meta' = TRUE
               /\ uiPc' = "sd_join"
          ELSE /\ stop_meta' = stop_meta
               /\ uiPc' = "ms_term"
    /\ UNCHANGED <<uiCont, uiText, msCont, uiNew, prevProc>>
    /\ UNCHANGED <<status_lock, refresh_meta, thread_meta, radio, statusWin>>
    /\ UNCHANGED <<mpvVars, pollVars, histVars>>

\* self.thread_meta.join()
ShutdownJoin ==
    /\ uiPc = "sd_join"
    /\ ~PollerAlive
    /\ uiPc' = "ms_term"
    /\ UNCHANGED <<uiCont, uiText, msCont, uiNew, prevProc>>
    /\ UNCHANGED <<mainVars, mpvVars, pollVars, histVars>>

\* sys.exit(0): SystemExit unwinds the main thread, leaving every 'with'
ShutdownExit ==
    /\ uiPc = "sd_exit"
    /\ uiPc' = "exited"
    /\ status_lock' = IF status_lock.owner = "ui" THEN Free ELSE status_lock
    /\ UNCHANGED <<uiCont, uiText, msCont, uiNew, prevProc>>
    /\ UNCHANGED <<stop_meta, refresh_meta, thread_meta, radio, statusWin>>
    /\ UNCHANGED <<mpvVars, pollVars, histVars>>

(* ------------------------------------------------------ the mpv processes *)

\* mpv binds and listens on --input-ipc-server some time after it started
MpvListen(p) ==
    /\ p \in alive
    /\ listener # p
    /\ socketFile' = TRUE
    /\ listener' = p
    /\ UNCHANGED <<proc, alive, termSent>>
    /\ UNCHANGED <<uiVars, mainVars, pollVars, histVars>>

\* a player exits, after SIGTERM or by itself; its socket file stays behind
\* (the stale file Mpv.stop removes) and the connection it had accepted is
\* closed by the kernel
MpvExit(p) ==
    /\ p \in alive
    /\ alive' = alive \ {p}
    /\ listener' = IF listener = p THEN NoProc ELSE listener
    /\ conn' = IF conn = p THEN ClosedPeer ELSE conn
    /\ UNCHANGED <<proc, termSent, socketFile>>
    /\ UNCHANGED <<pollPc, prev_song, song, resp, pollText, partial, pollErr>>
    /\ UNCHANGED <<uiVars, mainVars, histVars>>

(* ------------------------------------------------- the exception handlers *)

\* except (ConnectionError, socket.timeout) around client.connect
CaughtConnect(e) ==
    e \in {"ConnectionRefusedError", "ConnectionResetError", "BrokenPipeError",
           "ConnectionAbortedError", "timeout"}

\* except (socket.timeout, UnicodeDecodeError) around sendall and socket2json
CaughtSend(e) == e \in {"timeout", "UnicodeDecodeError"}

\* except (ConnectionResetError, json.JSONDecodeError) in socket2json
Caught2json(e) == e \in {"ConnectionResetError", "JSONDecodeError"}

\* what connect() raises, or "ok", given the socket file and who listens
ConnectOutcomes ==
    IF ~socketFile THEN {"FileNotFoundError"}
    ELSE IF listener = NoProc THEN {"ConnectionRefusedError"}
    ELSE {"ok", "timeout"}

\* what sendall() raises, or "ok", given the peer
SendOutcomes ==
    IF conn \in alive THEN {"ok", "timeout"} ELSE {"BrokenPipeError", "ConnectionResetError"}

\* what the read loop of socket2json meets: a complete line that decodes to a
\* JSON object ("ok"), bytes without a newline ("partial"), zero bytes from a
\* closed peer ("eof"), or an exception
RecvOutcomes ==
    IF conn \in alive
       THEN {"ok", "partial", "timeout", "UnicodeDecodeError", "JSONDecodeError"}
       ELSE {"eof", "ConnectionResetError"}

(* ------------------------------------------------------ Main.poll_metadata *)

pollRest == <<song, pollText, conn, partial>>

\* the locals of poll_metadata end with the thread
LocalsAfter == IF pollPc' \in {"done", "crashed"} THEN <<>> ELSE prev_song

\* the history of a send_command call ends with the call when it raises
HistoryAfter ==
    /\ scAbsent' = (scAbsent /\ pollPc' # "crashed")
    /\ scWaits' = (scWaits /\ pollPc' # "crashed")
    /\ scCancelled' = (scCancelled /\ pollPc' # "crashed")

\* the poller thread dies of an exception nobody catches
Raise(e) ==
    /\ pollPc' = "crashed"
    /\ pollErr' = e

\* send_command returns r to poll_metadata
Return(r) ==
    /\ pollPc' = "decide"
    /\ resp' = r

\* if stop.wait(5): return; else call self.mpv.get_metadata(stop)
PollWait ==
    /\ pollPc = "wait5"
    /\ IF stop_meta
          THEN /\ pollPc' = "done"
               /\ UNCHANGED <<scAbsent, scWaits, scCancelled>>
          ELSE /\ pollPc' = "sc_exists"
               /\ scAbsent' = FALSE
               /\ scWaits' = FALSE
               /\ scCancelled' = FALSE
    /\ prev_song' = LocalsAfter
    /\ UNCHANGED <<resp, pollErr, pollRest, connAbsent>>
    /\ UNCHANGED <<uiVars, mainVars, mpvVars>>

\* if not os.path.exists(self.socket)
SendCommandExists ==
    /\ pollPc = "sc_exists"
    /\ pollPc' = IF socketFile THEN "sc_connect" ELSE "sc_wait"
    /\ scAbsent' = (scAbsent \/ ~socketFile)
    /\ UNCHANGED <<resp, pollErr, prev_song, pollRest, scWaits, scCancelled, connAbsent>>
    /\ UNCHANGED <<uiVars, mainVars, mpvVars>>

\* if stop.wait(2): return {}; continue      (both retry waits)
SendCommandRetryWait ==
    /\ pollPc = "sc_wait"
    /\ scWaits' = TRUE
    /\ IF stop_meta
          THEN /\ Return(EmptyResp)
               /\ scCancelled' = TRUE
          ELSE /\ pollPc' = "sc_exists"
               /\ UNCHANGED <<resp, scCancelled>>
    /\ UNCHANGED <<pollErr, prev_song, pollRest, scAbsent, connAbsent>>
    /\ UNCHANGED <<uiVars, mainVars, mpvVars>>

\* client.connect(self.socket)
SendCommandConnect ==
    /\ pollPc = "sc_connect"
    /\ \E e \in ConnectOutcomes :
          /\ connAbsent' = (connAbsent \/ ~socketFile)
          /\ IF e = "ok"
                THEN /\ pollPc' = "sc_send"
                     /\ conn' = listener
                     /\ UNCHANGED pollErr
                ELSE IF CaughtConnect(e)
                THEN /\ pollPc' = "sc_wait"
                     /\ UNCHANGED <<conn, pollErr>>
                ELSE /\ Raise(e)
                     /\ UNCHANGED conn
    /\ prev_song' = LocalsAfter
    /\ HistoryAfter
    /\ UNCHANGED <<resp, song, pollText, partial>>
    /\ UNCHANGED <<uiVars, mainVars, mpvVars>>

\* client.sendall(bytes_)
SendCommandSendall ==
    /\ pollPc = "sc_send"
    /\ \E e \in SendOutcomes :
          IF e = "ok"
             THEN /\ pollPc' = "sc_recv"
                  /\ UNCHANGED <<resp, pollErr>>
             ELSE IF CaughtSend(e)
             THEN /\ Return(EmptyResp)
                  /\ UNCHANGED pollErr
             ELSE /\ Raise(e)
                  /\ UNCHANGED resp
    /\ conn' = IF pollPc' = "sc_recv" THEN conn ELSE NoProc
    /\ prev_song' = LocalsAfter
    /\ HistoryAfter
    /\ UNCHANGED <<song, pollText, partial, connAbsent>>
    /\ UNCHANGED <<uiVars, mainVars, mpvVars>>

\* socket2json(client): one s.recv(1024) and what follows it.  After zero
\* bytes from a closed peer, b''.endswith(b'\n') is false and every later
\* recv returns zero bytes at once: at "sc_spin" the loop has no other step
SendCommandRecv ==
    /\ pollPc = "sc_recv"
    /\ \E e \in RecvOutcomes :
          CASE e = "ok" ->
                  /\ \E r \in Responses : Return(r)
                  /\ partial' = FALSE
                  /\ UNCHANGED pollErr
            [] e = "partial" ->
                  /\ partial' = TRUE
                  /\ UNCHANGED <<pollPc, resp, pollErr>>
            [] e = "eof" ->
                  /\ pollPc' = "sc_spin"
                  /\ UNCHANGED <<resp, pollErr, partial>>
            [] OTHER ->
                  IF Caught2json(e) \/ CaughtSend(e)
                     THEN /\ Return(EmptyResp)
                          /\ partial' = FALSE
                          /\ UNCHANGED pollErr
                     ELSE /\ Raise(e)
                          /\ partial' = FALSE
                          /\ UNCHANGED resp
    /\ conn' = IF pollPc' = "sc_recv" THEN conn ELSE NoProc
    /\ prev_song' = LocalsAfter
    /\ HistoryAfter
    /\ UNCHANGED <<song, pollText, connAbsent>>
    /\ UNCHANGED <<uiVars, mainVars, mpvVars>>

\* a faulty test that forgets the refresh Event
ShouldPublishTitleIfChanged(prev, sng, flag) == prev # sng

\* a faulty test that also fires when a title had been announced
ShouldPublishBareAfterTitle(prev, flag) == prev # <<>> \/ flag

\* if prev_song != song or refresh.is_set()
ShouldPublishTitle(prev, sng, flag) == prev # sng \/ flag

\* elif refresh.is_set()
ShouldPublishBare(prev, flag) == flag

\* d2 = d.get('data') ... up to the choice whether to publish
PollDecide ==
    /\ pollPc = "decide"
    /\ IF ~resp.data
          THEN \* if not d2: continue
               /\ pollPc' = "wait5"
               /\ UNCHANGED <<prev_song, song>>
          ELSE IF resp.title # <<>> /\ resp.title[1] # <<>>
          THEN \* if song: song = song.rstrip()
               /\ song' = <<rstrip(resp.title[1])>>
               /\ IF ShouldPublishTitle(prev_song, song', refresh_meta)
                     THEN /\ prev_song' = song'
                          /\ pollPc' = "fmt"
                     ELSE /\ prev_song' = prev_song
                          /\ pollPc' = "wait5"
          ELSE /\ song' = <<>>
               /\ IF ShouldPublishBare(prev_song, refresh_meta)
                     THEN /\ prev_song' = <<>>
                          /\ pollPc' = "fmt"
                     ELSE /\ prev_song' = prev_song
                          /\ pollPc' = "wait5"
    /\ resp' = EmptyResp
    /\ scAbsent' = FALSE
    /\ scWaits' = FALSE
    /\ scCancelled' = FALSE
    /\ UNCHANGED <<pollText, conn, partial, pollErr, connAbsent>>
    /\ UNCHANGED <<uiVars, mainVars, mpvVars>>

\* f'{self.radio}: {song}' or f'{self.radio}', the argument of self.status
PollFormat ==
    /\ pollPc = "fmt"
    /\ pollText' = IF song # <<>> THEN SongText(radio, song[1]) ELSE BareText(radio)
    /\ pollPc' = "st_acq"
    /\ song' = <<>>
    /\ UNCHANGED <<prev_song, resp, conn, partial, pollErr, histVars>>
    /\ UNCHANGED <<uiVars, mainVars, mpvVars>>

(* --------------------------------------- Main.status on the poller thread *)

pollKeep == <<prev_song, song, resp, pollText, conn, partial, pollErr, histVars>>

PollStatusAcquire ==
    /\ pollPc = "st_acq"
    /\ CanAcquire("poll")
    /\ status_lock' = Acquired("poll")
    /\ pollPc' = "st_erase"
    /\ UNCHANGED <<stop_meta, refresh_meta, thread_meta, radio, statusWin>>
    /\ UNCHANGED <<pollKeep, uiVars, mpvVars>>

PollStatusErase ==
    /\ pollPc = "st_erase"
    /\ statusWin' = Blank
    /\ pollPc' = "st_add"
    /\ UNCHANGED <<status_lock, stop_meta, refresh_meta, thread_meta, radio>>
    /\ UNCHANGED <<pollKeep, uiVars, mpvVars>>

PollStatusAdd ==
    /\ pollPc = "st_add"
    /\ statusWin' = pollText
    /\ pollPc' = "st_rel"
    /\ UNCHANGED <<status_lock, stop_meta, refresh_meta, thread_meta, radio>>
    /\ UNCHANGED <<pollKeep, uiVars, mpvVars>>

PollStatusRelease ==
    /\ pollPc = "st_rel"
    /\ status_lock' = Released
    /\ pollPc' = "clear"
    /\ UNCHANGED <<stop_meta, refresh_meta, thread_meta, radio, statusWin>>
    /\ UNCHANGED <<pollKeep, uiVars, mpvVars>>

\* refresh.clear(), then the next turn of the loop
PollClear ==
    /\ pollPc = "clear"
    /\ refresh_meta' = FALSE
    /\ pollPc' = "wait5"
    /\ pollText' = Blank
    /\ UNCHANGED <<status_lock, stop_meta, thread_meta, radio, statusWin>>
    /\ UNCHANGED <<prev_song, song, resp, conn, partial, pollErr, histVars>>
    /\ UNCHANGED <<uiVars, mpvVars>>

(* ---------------------------------------------------------- the records *)

\* Main.record at start: Record({}), the root
Root == 0

\* the records that can be listed: the root, a 'link' outline (1) whose
\* document is fetched on the first visit, an outline that has only a text
\* (2) and holds the outlines nested in it, the last of them a 'link'
\* outline (31); every other record is an 'audio' outline
Dirs == {0, 1, 2, 31}

\* the outline elements a document offers for directory n, in document order
Potential(n) ==
    CASE n = 0 -> [j \in 1..MaxLen |-> j]
      [] n = 1 -> [j \in 1..MaxSub |-> 10 + j]
      [] n = 2 -> [j \in 1..MaxSub |-> 31 + MaxSub - j]
      [] n = 31 -> <<311>>
      [] OTHER -> <<>>

\* Record.parent of a record that is listed
Parent(n) == IF n = 31 THEN 2 ELSE Root

\* 'URL' in self.d
HasURL(n) == n \notin {0, 2}

\* self.d.get('type')
TypeOf(n) == IF n \in {1, 31} THEN "link" ELSE IF n \in {0, 2} THEN "none" ELSE "audio"

\* Record.children
ChildrenOf(n) == IF n \in Dirs THEN children[n] ELSE <<>>

\* r.d['URL'], by number: several outlines name the same stream
URLOf(n) == n % MaxURLs

\* Record.d of the record n: the attributes of its outline element
DictOf(n) ==
    [k \in {"text"} \cup (IF HasURL(n) THEN {"URL"} ELSE {})
                    \cup (IF TypeOf(n) # "none" THEN {"type"} ELSE {})
        |-> IF k = "type" THEN TypeOf(n)
            ELSE IF k = "URL" THEN ToString(URLOf(n))
            ELSE ToString(n)]

\* d.get(k) == v
GetIs(d, k, v) == k \in DOMAIN d /\ d[k] = v

\* Record.isdir, for the dict d and kids children
isdir_of(d, kids) ==
    IF kids > 0 THEN TRUE
    ELSE IF "URL" \notin DOMAIN d THEN TRUE
    ELSE IF GetIs(d, "type", "link") THEN TRUE
    ELSE FALSE

\* a faulty isaudio that does not ask isdir
isaudio_of_leaf(d, kids) == GetIs(d, "type", "audio") /\ "URL" \in DOMAIN d

\* Record.isaudio, for the dict d and kids children
isaudio_of(d, kids) ==
    IF isdir_of(d, kids) THEN FALSE
    ELSE IF GetIs(d, "type", "audio") /\ "URL" \in DOMAIN d THEN TRUE
    ELSE FALSE

\* Record.isdir of the record n
isdir(n) == isdir_of(DictOf(n), Len(ChildrenOf(n)))

\* Record.isaudio of the record n
isaudio(n) == isaudio_of(DictOf(n), Len(ChildrenOf(n)))

\* Main.records_len
records_len == Len(children[record])

Min(a, b) == IF a < b THEN a ELSE b

(* --------------------------------------------- List: the new <<cur, idx>> *)

\* a faulty refresh that takes min(cur, idx) before it clamps idx
RefreshPosMinFirst(c, i, n, r) ==
    IF n = 0 THEN <<c, i>>
    ELSE LET c0 == Min(c, i)
             i1 == IF ~(i < n) THEN n - 1 ELSE i
             di == n - i1
         IN <<IF gapfix /\ (r - c0) > di THEN r - di ELSE c0, i1>>

\* List.refresh: c, i the fields, n the length, r the rows
RefreshPos(c, i, n, r) ==
    IF n = 0 THEN <<c, i>>
    ELSE LET i1 == IF ~(i < n) THEN n - 1 ELSE i
             di == n - i1
             c1 == IF gapfix /\ (r - c) > di THEN r - di ELSE c
         IN <<Min(c1, i1), i1>>

\* the child whose text List.refresh paints on row k, or -1 for a blank row
RowChild(c, i, n, r, k) ==
    IF 0 <= k /\ k < r /\ i - c + k < n THEN i - c + k ELSE -1

\* a row after win.erase()
EmptyRow == [child |-> -1, hl |-> FALSE]

\* the rows of the window as List.refresh paints them: erase, then the texts
\* of the children from idx - cur on, the row cur with current_color
Painted(c, i, n, r) ==
    [k \in 0..(r - 1) |->
        IF n > 0 /\ RowChild(c, i, n, r, k) >= 0
           THEN [child |-> RowChild(c, i, n, r, k), hl |-> (k = c)]
           ELSE EmptyRow]

\* win_addstr(win, k, 0, s, attr): the text of the child over what row k
\* holds; over the text of another child the end of that text may stay
Addstr(w, k, child, hl) ==
    [w EXCEPT ![k] = IF @.child \in {-1, child}
                        THEN [child |-> child, hl |-> hl]
                        ELSE [child |-> -2, hl |-> hl]]

\* win.move(0, 0); win.deleteln(): the rows move up, the last one is blank
Deleteln(w, r) == [k \in 0..(r - 1) |-> IF k < r - 1 THEN w[k + 1] ELSE EmptyRow]

\* a faulty scroll_up that does not insert a line
InsdellnNone(w, r) == w

\* win.move(0, 0); win.insdelln(1): the rows move down, row 0 is blank
Insdelln(w, r) == [k \in 0..(r - 1) |-> IF k = 0 THEN EmptyRow ELSE w[k - 1]]

\* the rows List.scroll_down leaves, from the rows w
ScrollDownWin(w, c, i, n, r) ==
    IF n = 0 \/ ~(i + 1 < n) THEN w
    ELSE LET w1 == Addstr(w, c, i, FALSE)
         IN IF c + 1 < r THEN Addstr(w1, c + 1, i + 1, TRUE)
            ELSE Addstr(Deleteln(w1, r), r - 1, i + 1, TRUE)

\* the rows List.scroll_up leaves, from the rows w
ScrollUpWin(w, c, i, n, r) ==
    IF n = 0 \/ i - 1 < 0 THEN w
    ELSE LET w1 == Addstr(w, c, i, FALSE)
         IN IF c > 0 THEN Addstr(w1, c - 1, i - 1, TRUE)
            ELSE Addstr(Insdelln(w1, r), c, i - 1, TRUE)

\* a faulty scroll_top that resets the cursor only
ScrollTopPosCursorOnly(c, i, n, r) == RefreshPos(0, i, n, r)

\* List.scroll_top
ScrollTopPos(c, i, n, r) == RefreshPos(0, 0, n, r)

\* a faulty scroll_bottom that forgets min(rows - 1, ...)
ScrollBottomPosUnbounded(c, i, n, r) ==
    IF n = 0 THEN <<c, i>> ELSE RefreshPos(n - 1, n - 1, n, r)

\* a faulty scroll_bottom that does not return on an empty list
ScrollBottomPosUnguarded(c, i, n, r) ==
    RefreshPos(Min(r - 1, n - 1), n - 1, n, r)

\* List.scroll_bottom
ScrollBottomPos(c, i, n, r) ==
    IF n = 0 THEN <<c, i>> ELSE RefreshPos(Min(r - 1, n - 1), n - 1, n, r)

\* a faulty scroll_down that forgets the test idx + 1 < len_
ScrollDownPosUnguarded(c, i, n, r) ==
    IF n = 0 THEN <<c, i>>
    ELSE <<IF c + 1 < r THEN c + 1 ELSE r - 1, i + 1>>

\* List.scroll_down
ScrollDownPos(c, i, n, r) ==
    IF n = 0 \/ ~(i + 1 < n) THEN <<c, i>>
    ELSE <<IF c + 1 < r THEN c + 1 ELSE r - 1, i + 1>>

\* a faulty scroll_up that moves the index only together with the cursor
ScrollUpPosStuck(c, i, n, r) ==
    IF n = 0 \/ i - 1 < 0 THEN <<c, i>>
    ELSE IF c > 0 THEN <<c - 1, i - 1>> ELSE <<c, i>>

\* List.scroll_up
ScrollUpPos(c, i, n, r) ==
    IF n = 0 \/ i - 1 < 0 THEN <<c, i>>
    ELSE <<IF c > 0 THEN c - 1 ELSE c, i - 1>>

\* List.scroll_page_down
ScrollPageDownPos(c, i, n, r) ==
    IF n = 0 THEN <<c, i>>
    ELSE IF i + r < n THEN RefreshPos(c, i + r, n, r)
    ELSE LET delta == (n - 1) - i
         IN IF delta = 0 THEN ScrollBottomPos(c, i, n, r)
            ELSE IF c + delta < r THEN RefreshPos(c + delta, n - 1, n, r)
            ELSE ScrollBottomPos(c, i, n, r)

\* List.scroll_page_up
ScrollPageUpPos(c, i, n, r) ==
    IF n = 0 THEN <<c, i>>
    ELSE IF ~(i - r < 0) THEN RefreshPos(c, i - r, n, r)
    ELSE ScrollTopPos(c, i, n, r)

\* List1m.move_up after record_move_up returned True
MoveUpPos(c, i, n, r) ==
    RefreshPos(IF c > 0 THEN c - 1 ELSE c, IF i > 0 THEN i - 1 ELSE i, n, r)

\* List1m.move_down after record_move_down returned True
MoveDownPos(c, i, n, r) ==
    RefreshPos(IF c < r - 1 THEN c + 1 ELSE c, IF i < n - 1 THEN i + 1 ELSE i, n, r)

(* ------------------------------------------------ Record.move_child_up/down *)

\* del l[i], for a 0-based i inside l
Del(l, i) == SubSeq(l, 1, i) \o SubSeq(l, i + 2, Len(l))

\* l.insert(i, r): a place past the end is the end, a negative one counts
\* from the end and stops at the start
Insert(l, i, r) ==
    LET k == IF i > Len(l) THEN Len(l)
             ELSE IF i < 0 THEN (IF Len(l) + i < 0 THEN 0 ELSE Len(l) + i)
             ELSE i
    IN SubSeq(l, 1, k) \o <<r>> \o SubSeq(l, k + 1, Len(l))

\* Record.move_child_up(i): i is 0-based; "ok" is the returned bool
move_child_up(l, i) ==
    IF 0 < i /\ i < Len(l)
       THEN [ok |-> TRUE, l |-> Insert(Del(l, i), i - 1, l[i + 1])]
       ELSE [ok |-> FALSE, l |-> l]

\* a faulty move_child_down that accepts the last index
move_child_down_last(l, i) ==
    IF 0 <= i /\ i < Len(l)
       THEN [ok |-> TRUE, l |-> Insert(Del(l, i), i + 1, l[i + 1])]
       ELSE [ok |-> FALSE, l |-> l]

\* Record.move_child_down(i)
move_child_down(l, i) ==
    IF 0 <= i /\ i < Len(l) - 1
       THEN [ok |-> TRUE, l |-> Insert(Del(l, i), i + 1, l[i + 1])]
       ELSE [ok |-> FALSE, l |-> l]

(* ------------------------------------------------------- the list's keys *)

\* one key handled by List.handle_input: the fields become p
Moved(p) ==
    /\ viewErr = "none"
    /\ cur' = p[1]
    /\ idx' = p[2]
    /\ UNCHANGED <<treeVars, stepVars>>

\* 'h': Main.refresh_all calls self.win.refresh()
Refresh == Moved(RefreshPos(cur, idx, records_len, rows))

ScrollTop == Moved(ScrollTopPos(cur, idx, records_len, rows))

ScrollBottom == Moved(ScrollBottomPos(cur, idx, records_len, rows))

ScrollDown == Moved(ScrollDownPos(cur, idx, records_len, rows))

ScrollUp == Moved(ScrollUpPos(cur, idx, records_len, rows))

ScrollPageDown == Moved(ScrollPageDownPos(cur, idx, records_len, rows))

ScrollPageUp == Moved(ScrollPageUpPos(cur, idx, records_len, rows))

\* a faulty move_down that moves the cursor row and leaves idx
move_down_cursor(l, c, i, r) ==
    LET m == move_child_down(l, i)
    IN IF m.ok THEN [l |-> m.l, p |-> RefreshPos(IF c < r - 1 THEN c + 1 ELSE c, i, Len(l), r)]
       ELSE [l |-> l, p |-> <<c, i>>]

\* List1m.move_up(i) over the children l with the fields c, i and r rows:
\* "l" the children and "p" the fields it leaves
move_up(l, c, i, r) ==
    LET m == move_child_up(l, i)
    IN IF m.ok THEN [l |-> m.l, p |-> MoveUpPos(c, i, Len(l), r)]
       ELSE [l |-> l, p |-> <<c, i>>]

\* List1m.move_down(i)
move_down(l, c, i, r) ==
    LET m == move_child_down(l, i)
    IN IF m.ok THEN [l |-> m.l, p |-> MoveDownPos(c, i, Len(l), r)]
       ELSE [l |-> l, p |-> <<c, i>>]

\* Shift-Up: List1m.move_up(self.idx)
MoveUp ==
    LET m == move_up(children[record], cur, idx, rows)
    IN /\ viewErr = "none"
       /\ children' = [children EXCEPT ![record] = m.l]
       /\ cur' = m.p[1]
       /\ idx' = m.p[2]
       /\ UNCHANGED <<rows, gapfix, record, pos, viewErr, stepVars>>

\* Shift-Down: List1m.move_down(self.idx)
MoveDown ==
    LET m == move_down(children[record], cur, idx, rows)
    IN /\ viewErr = "none"
       /\ children' = [children EXCEPT ![record] = m.l]
       /\ cur' = m.p[1]
       /\ idx' = m.p[2]
       /\ UNCHANGED <<rows, gapfix, record, pos, viewErr, stepVars>>

(* ------------------------------------------------- Main.right, Main.left *)

\* from_url(r.d['URL'], self.record): the children the document gives, m of
\* the elements it could list
Fetched(n, m) == SubSeq(Potential(n), 1, m)

\* what requests.get and XML raise in from_url; a caller that catches the
\* second and clears the children leaves the directory as Fetched(n, 0) does
FetchErrors == {"RequestException", "XMLSyntaxError"}

\* not self.record.children and 'URL' in r.d
NeedsFetch(r) == children[r] = <<>> /\ HasURL(r)

\* a faulty display that starts every directory from its top
ShownFromTop(r, saved) ==
    LET p == RefreshPos(0, 0, Len(children'[r]), rows)
    IN /\ cur' = p[1]
       /\ idx' = p[2]

\* self.win.cur, self.win.idx = self.record.pos; self.win.refresh(), for the
\* directory r with the positions saved
Shown(r, saved) ==
    LET p == RefreshPos(saved[r][1], saved[r][2], Len(children'[r]), rows)
    IN /\ cur' = p[1]
       /\ idx' = p[2]

\* KEY_RIGHT: Main.right(self.win.idx)
RightTree ==
    /\ viewErr = "none"
    /\ idx < records_len
    /\ LET r == children[record][idx + 1]
           saved == [pos EXCEPT ![record] = <<cur, idx>>]
       IN /\ pos' = saved
          /\ IF isdir(r)
                THEN /\ record' = r
                     /\ IF NeedsFetch(r)
                           THEN \/ /\ \E m \in 0..Len(Potential(r)) :
                                         children' = [children EXCEPT ![r] = Fetched(r, m)]
                                   /\ Shown(r, saved)
                                   /\ UNCHANGED viewErr
                                \/ /\ \E e \in FetchErrors : viewErr' = e
                                   /\ UNCHANGED <<children, cur, idx>>
                           ELSE /\ UNCHANGED <<children, viewErr>>
                                /\ Shown(r, saved)
                ELSE UNCHANGED <<record, children, cur, idx, viewErr>>
    /\ UNCHANGED <<rows, gapfix>>

Right == RightTree /\ UNCHANGED stepVars

\* KEY_LEFT: Main.left
Left ==
    /\ viewErr = "none"
    /\ record # Root
    /\ UNCHANGED <<rows, gapfix, children, viewErr, stepVars>>
    /\ LET saved == [pos EXCEPT ![record] = <<cur, idx>>]
           up == Parent(record)
       IN /\ pos' = saved
          /\ record' = up
          /\ Shown(up, saved)

\* Enter: what Main.start_player(self.win.idx) does to the tree
Enter ==
    /\ viewErr = "none"
    /\ idx < records_len
    /\ pos' = [pos EXCEPT ![record] = <<cur, idx>>]
    /\ UNCHANGED <<rows, gapfix, children, record, viewErr, cur, idx, stepVars>>

(* ------------------------------------------------------ the specifications *)

\* no exception has left Main.right; the walk has listed the root only; the
\* rows of the window are not followed
NavIdle ==
    /\ viewErr = "none"
    /\ fetches = [n \in Dirs |-> 0]
    /\ entered = {Root}
    /\ screen = <<>>

\* the list window before Main.run, for the specification of the threads
ViewIdle ==
    /\ rows = 1 /\ gapfix = TRUE
    /\ children = [n \in Dirs |-> <<>>]
    /\ record = Root
    /\ pos = [n \in Dirs |-> <<0, 0>>]
    /\ NavIdle
    /\ cur = 0 /\ idx = 0
    /\ steps = 0 /\ net = 0 /\ clean = TRUE

\* Main.__init__: the root is populated by from_url, the window is created
ViewInit ==
    /\ rows \in 1..MaxRows
    /\ gapfix \in BOOLEAN
    /\ \E m \in 0..MaxLen :
          children = [n \in Dirs |-> IF n = Root THEN Fetched(Root, m) ELSE <<>>]
    /\ record = Root
    /\ pos = [n \in Dirs |-> <<0, 0>>]
    /\ NavIdle
    /\ cur = 0 /\ idx = 0
    /\ steps = 0 /\ net = 0 /\ clean = TRUE

\* Favourites.__init__, before any call
FavIdle ==
    /\ favourites = <<>>
    /\ call = <<"none", 0>>
    /\ ret = FALSE
    /\ rec = [d |-> DictOf(Root), kids |-> 0]
    /\ loaded = <<>>

Init == ThreadInit /\ ViewIdle /\ FavIdle

\* the list window is not touched by the steps of the threads
ViewStill == UNCHANGED <<viewVars, stepVars, favVars, walkVars, paintVars, titleVars>>

\* the keys and signals of the main thread, and the steps they lead to
UINext ==
    \/ UIStatusAcquire /\ ViewStill
    \/ UIStatusErase /\ ViewStill
    \/ UIStatusAdd /\ ViewStill
    \/ UIStatusRelease /\ ViewStill
    \/ RefreshAllErase /\ ViewStill
    \/ RefreshAllBorder /\ ViewStill
    \/ RefreshAllSet /\ ViewStill
    \/ KeyHelp /\ ViewStill
    \/ KeyQuit /\ ViewStill
    \/ Signal /\ ViewStill
    \/ (\E s \in Stations : KeyEnter(s)) /\ ViewStill
    \/ MpvStopTerminate /\ ViewStill
    \/ MpvStopWait /\ ViewStill
    \/ MpvStopRemove /\ ViewStill
    \/ MpvStartPopen /\ ViewStill
    \/ MpvStartAssign /\ ViewStill
    \/ StartPlayerThread /\ ViewStill
    \/ ShutdownCheck /\ ViewStill
    \/ ShutdownJoin /\ ViewStill
    \/ ShutdownExit /\ ViewStill

\* the steps of the metadata thread
PollNext ==
    \/ PollWait /\ ViewStill
    \/ SendCommandExists /\ ViewStill
    \/ SendCommandRetryWait /\ ViewStill
    \/ SendCommandConnect /\ ViewStill
    \/ SendCommandSendall /\ ViewStill
    \/ SendCommandRecv /\ ViewStill
    \/ PollDecide /\ ViewStill
    \/ PollFormat /\ ViewStill
    \/ PollStatusAcquire /\ ViewStill
    \/ PollStatusErase /\ ViewStill
    \/ PollStatusAdd /\ ViewStill
    \/ PollStatusRelease /\ ViewStill
    \/ PollClear /\ ViewStill

\* the player process
EnvNext ==
    \/ (\E p \in Pids : MpvListen(p)) /\ ViewStill
    \/ (\E p \in Pids : MpvExit(p)) /\ ViewStill

Next == UINext \/ PollNext \/ EnvNext

Spec == Init /\ [][Next]_vars

(* ------------------------------------- the station behind every title *)

\* self.mpv.start(r.d['URL']) right after self.radio = r.text: the process
\* that Popen creates plays the station named by Main.radio
Started ==
    playing' = IF uiPc = "sp_popen" /\ uiPc' = "sp_assign"
                  THEN [playing EXCEPT ![uiNew'] = radio]
                  ELSE playing

\* d.get('data').get('icy-title') of the reply read from the connection: the
\* title comes from the process at the other end; it is held until the status
\* call that publishes it returns or the turn of the loop ends without one
Told ==
    heard' = IF pollPc = "sc_recv" /\ pollPc' = "decide" /\ resp'.title # <<>>
                THEN playing[conn]
                ELSE IF pollPc' \in {"decide", "fmt", "st_acq", "st_erase",
                                     "st_add", "st_rel"}
                THEN heard
                ELSE ""

\* the list window is not touched, the history of the titles is kept
Titled ==
    /\ Started
    /\ Told
    /\ UNCHANGED <<viewVars, stepVars, favVars, walkVars, paintVars>>

\* Main.run while the user selects stations and looks at the help screen
NextTitle ==
    \/ UIStatusAcquire /\ Titled
    \/ UIStatusErase /\ Titled
    \/ UIStatusAdd /\ Titled
    \/ UIStatusRelease /\ Titled
    \/ RefreshAllErase /\ Titled
    \/ RefreshAllBorder /\ Titled
    \/ RefreshAllSet /\ Titled
    \/ KeyHelp /\ Titled
    \/ (\E s \in Stations : KeyEnter(s)) /\ Titled
    \/ MpvStopTerminate /\ Titled
    \/ MpvStopWait /\ Titled
    \/ MpvStopRemove /\ Titled
    \/ MpvStartPopen /\ Titled
    \/ MpvStartAssign /\ Titled
    \/ StartPlayerThread /\ Titled
    \/ PollWait /\ Titled
    \/ SendCommandExists /\ Titled
    \/ SendCommandRetryWait /\ Titled
    \/ SendCommandConnect /\ Titled
    \/ SendCommandSendall /\ Titled
    \/ SendCommandRecv /\ Titled
    \/ PollDecide /\ Titled
    \/ PollFormat /\ Titled
    \/ PollStatusAcquire /\ Titled
    \/ PollStatusErase /\ Titled
    \/ PollStatusAdd /\ Titled
    \/ PollStatusRelease /\ Titled
    \/ PollClear /\ Titled
    \/ (\E p \in Pids : MpvListen(p)) /\ Titled
    \/ (\E p \in Pids : MpvExit(p)) /\ Titled

SpecTitle == Init /\ [][NextTitle]_vars

\* what the main thread does between two keys: Main.status, Main.refresh_all,
\* Mpv.stop, Mpv.start and the start of the thread
UIRuns ==
    \/ UIStatusAcquire \/ UIStatusErase \/ UIStatusAdd \/ UIStatusRelease
    \/ RefreshAllErase \/ RefreshAllBorder \/ RefreshAllSet
    \/ MpvStopTerminate \/ MpvStopWait \/ MpvStopRemove
    \/ MpvStartPopen \/ MpvStartAssign \/ StartPlayerThread

\* the steps of Main.poll_metadata
PollRuns ==
    \/ PollWait \/ SendCommandExists \/ SendCommandRetryWait
    \/ SendCommandConnect \/ SendCommandSendall \/ SendCommandRecv
    \/ PollDecide \/ PollFormat
    \/ PollStatusAcquire \/ PollStatusErase \/ PollStatusAdd
    \/ PollStatusRelease \/ PollClear

\* both threads are scheduled: a call one is in goes on whenever it can
SpecTitleFair ==
    SpecTitle /\ WF_vars(UIRuns /\ Titled) /\ WF_vars(PollRuns /\ Titled)

InitView == ThreadIdle /\ ViewInit /\ FavIdle

\* the threads are not touched by the keys of the list
ThreadStill == UNCHANGED <<threadVars, favVars, walkVars, paintVars>>

NextView ==
    \/ Refresh /\ ThreadStill
    \/ ScrollTop /\ ThreadStill
    \/ ScrollBottom /\ ThreadStill
    \/ ScrollDown /\ ThreadStill
    \/ ScrollUp /\ ThreadStill
    \/ ScrollPageDown /\ ThreadStill
    \/ ScrollPageUp /\ ThreadStill
    \/ MoveUp /\ ThreadStill
    \/ MoveDown /\ ThreadStill
    \/ Right /\ ThreadStill
    \/ Left /\ ThreadStill
    \/ Enter /\ ThreadStill

SpecView == InitView /\ [][NextView]_vars

(* ------------------------------------------- steps from the top of a list *)

\* a List just created (cur = idx = 0) over a list of fixed length >= 1
InitSteps ==
    /\ ThreadIdle
    /\ FavIdle
    /\ rows \in 1..MaxRows
    /\ gapfix \in BOOLEAN
    /\ \E m \in 1..MaxLen :
          children = [n \in Dirs |-> IF n = Root THEN Fetched(Root, m) ELSE <<>>]
    /\ record = Root
    /\ pos = [n \in Dirs |-> <<0, 0>>]
    /\ NavIdle
    /\ cur = 0 /\ idx = 0
    /\ steps = 0 /\ net = 0 /\ clean = TRUE

\* one more call, d = 1 for scroll_down and -1 for scroll_up, moving to p
Stepped(p, d) ==
    /\ steps < MaxSteps
    /\ cur' = p[1]
    /\ idx' = p[2]
    /\ steps' = steps + 1
    /\ net' = net + d
    /\ clean' = (clean /\ net + d >= 0 /\ net + d < records_len)
    /\ UNCHANGED <<treeVars, threadVars, favVars, walkVars, paintVars>>

StepDown == Stepped(ScrollDownPos(cur, idx, records_len, rows), 1)

StepUp == Stepped(ScrollUpPos(cur, idx, records_len, rows), -1)

NextSteps == StepDown \/ StepUp

SpecSteps == InitSteps /\ [][NextSteps]_vars

(* ------------------------------------------ the keys of List on a static list *)

\* a List just created (cur = idx = 0) over a list that does not change
InitList ==
    /\ ThreadIdle
    /\ FavIdle
    /\ rows \in 1..MaxRows
    /\ gapfix \in BOOLEAN
    /\ \E m \in 0..MaxItems :
          children = [n \in Dirs |-> IF n = Root THEN [j \in 1..m |-> j] ELSE <<>>]
    /\ record = Root
    /\ pos = [n \in Dirs |-> <<0, 0>>]
    /\ NavIdle
    /\ cur = 0 /\ idx = 0
    /\ steps = 0 /\ net = 0 /\ clean = TRUE

\* List.handle_input
NextList ==
    \/ Refresh /\ ThreadStill
    \/ ScrollTop /\ ThreadStill
    \/ ScrollBottom /\ ThreadStill
    \/ ScrollDown /\ ThreadStill
    \/ ScrollUp /\ ThreadStill
    \/ ScrollPageDown /\ ThreadStill
    \/ ScrollPageUp /\ ThreadStill

SpecList == InitList /\ [][NextList]_vars

(* ------------------------------------------------ List.refresh, called twice *)

\* a List whose fields hold any values, over a list of any length
InitRefresh ==
    /\ ThreadIdle
    /\ FavIdle
    /\ rows \in 1..MaxRows
    /\ gapfix \in BOOLEAN
    /\ \E m \in 0..MaxItems :
          children = [n \in Dirs |-> IF n = Root THEN [j \in 1..m |-> j] ELSE <<>>]
    /\ record = Root
    /\ pos = [n \in Dirs |-> <<0, 0>>]
    /\ NavIdle
    /\ cur \in 0..MaxField
    /\ idx \in 0..MaxField
    /\ steps = 0 /\ net = 0 /\ clean = TRUE

\* self.refresh(), the first and the second call
RefreshCall ==
    /\ steps < 2
    /\ LET p == RefreshPos(cur, idx, records_len, rows)
       IN /\ cur' = p[1]
          /\ idx' = p[2]
    /\ steps' = steps + 1
    /\ UNCHANGED <<treeVars, net, clean, threadVars, favVars, walkVars, paintVars>>

SpecRefresh == InitRefresh /\ [][RefreshCall]_vars

(* ------------------------------------------- the walk through directories *)

\* Main.__init__ with a root document that lists every outline and whose
\* outline 2 holds nested outlines: from_xml fills the children of an outline
\* without URL as it reads it
InitNav ==
    /\ ThreadIdle
    /\ FavIdle
    /\ rows \in 1..MaxRows
    /\ gapfix \in BOOLEAN
    /\ children = [n \in Dirs |-> IF n \in {Root, 2} THEN Potential(n) ELSE <<>>]
    /\ record = Root
    /\ pos = [n \in Dirs |-> <<0, 0>>]
    /\ NavIdle
    /\ cur = 0 /\ idx = 0
    /\ steps = 0 /\ net = 0 /\ clean = TRUE

\* the history of a step of Main.right: one more from_url call for the
\* directory it fetched, and the directory it shows is listed
Walked ==
    LET r == children[record][idx + 1]
        fetch == isdir(r) /\ NeedsFetch(r)
    IN /\ fetch => fetches[r] < MaxFetch
       /\ fetches' = IF fetch THEN [fetches EXCEPT ![r] = @ + 1] ELSE fetches
       /\ entered' = IF viewErr' = "none" THEN entered \cup {record'} ELSE entered

\* the steps of the walk leave the threads and the favourites alone
WalkStill == UNCHANGED <<threadVars, favVars, paintVars>>

NextNav ==
    \/ Right /\ Walked /\ WalkStill
    \/ Left /\ ThreadStill
    \/ ScrollTop /\ ThreadStill
    \/ ScrollBottom /\ ThreadStill
    \/ ScrollDown /\ ThreadStill
    \/ ScrollUp /\ ThreadStill

SpecNav == InitNav /\ [][NextNav]_vars

(* ------------------------------------------------ the terminal is resized *)

\* App.sigwinch_handler: screen_size is the new size of the terminal;
\* create_windows makes a window of maxy - 4 rows and a new List on it, whose
\* cur and idx are 0; refresh_all calls refresh on it.  The positions saved
\* in the records are not touched
Resize ==
    /\ viewErr = "none"
    /\ \E r \in 1..MaxRows :
          /\ r # rows
          /\ rows' = r
          /\ LET p == RefreshPos(0, 0, records_len, r)
             IN cur' = p[1] /\ idx' = p[2]
    /\ UNCHANGED <<gapfix, children, record, pos, viewErr, stepVars>>

NextResize ==
    \/ Right /\ Walked /\ WalkStill
    \/ Left /\ ThreadStill
    \/ ScrollTop /\ ThreadStill
    \/ ScrollBottom /\ ThreadStill
    \/ ScrollDown /\ ThreadStill
    \/ ScrollUp /\ ThreadStill
    \/ Resize /\ ThreadStill

SpecResize == InitNav /\ [][NextResize]_vars

(* ---------------------------------------------------- the favourites record *)

\* the records made by Favourites.load_from_home: their parent is the
\* favourites record
Loaded == {20}

\* the audio outlines listed in the directories of the tree
Tunable == {20 + j : j \in 1..MaxCand}

\* the records a caller can pass to add_record: a 'link' outline (1), an
\* outline without URL (2), the audio outlines, the records of the file
Offered == {1, 2} \cup Tunable \cup Loaded

\* the places (1-based) of l whose record has the URL of r
SameURL(l, r) == {i \in 1..Len(l) : URLOf(l[i]) = URLOf(r)}

\* the first place of a non-empty set of places
First(S) == CHOOSE i \in S : \A j \in S : i <= j

\* a faulty add_record that looks for the record r itself, not for its URL
add_record_same(l, r) ==
    IF r \in Loaded \/ ~isaudio(r) THEN [ok |-> FALSE, l |-> l]
    ELSE IF \E i \in 1..Len(l) : l[i] = r THEN [ok |-> FALSE, l |-> l]
    ELSE [ok |-> TRUE, l |-> Append(l, r)]

\* Favourites.add_record(r) on the children l: "ok" is the returned bool
add_record(l, r) ==
    IF r \in Loaded \/ ~isaudio(r) THEN [ok |-> FALSE, l |-> l]
    ELSE IF SameURL(l, r) # {}
            THEN [ok |-> FALSE, l |-> [l EXCEPT ![First(SameURL(l, r))] = r]]
    ELSE [ok |-> TRUE, l |-> Append(l, r)]

\* the favourites: none, or the one record of favourites.opml
InitFav ==
    /\ ThreadIdle
    /\ ViewIdle
    /\ favourites \in {<<>>} \cup {<<r>> : r \in Loaded}
    /\ call = <<"none", 0>>
    /\ ret = FALSE
    /\ rec = [d |-> DictOf(Root), kids |-> 0]
    /\ loaded = <<>>

\* one call on the favourites record, returning m
Called(name, arg, m) ==
    /\ favourites' = m.l
    /\ call' = <<name, arg>>
    /\ ret' = m.ok
    /\ loaded' = <<>>
    /\ UNCHANGED <<rec, threadVars, viewVars, stepVars, walkVars, paintVars>>

\* Favourites.add_record(r)
AddRecord == \E r \in Offered : Called("add", r, add_record(favourites, r))

\* Record.move_child_up(i) on the favourites, for any int i
MoveChildUp ==
    \E i \in (-1)..Len(favourites) : Called("up", i, move_child_up(favourites, i))

\* Record.move_child_down(i) on the favourites, for any int i
MoveChildDown ==
    \E i \in (-1)..Len(favourites) : Called("down", i, move_child_down(favourites, i))

\* a faulty save_to_home that writes the text and the URL of a favourite only
save_to_home_short(l) ==
    [i \in 1..Len(l) |->
        [attrib |-> [k \in DOMAIN DictOf(l[i]) \ {"type"} |-> DictOf(l[i])[k]],
         sub |-> <<>>]]

\* Favourites.save_to_home: the outline elements under /opml/body, one for
\* each child with its dict as attributes and no element inside
save_to_home(l) ==
    [i \in 1..Len(l) |-> [attrib |-> DictOf(l[i]), sub |-> <<>>]]

\* 'text' in d, for the element e
HasText(e) == "text" \in DOMAIN e.attrib

\* from_xml(root, r) for an r without children: the dicts of the children it
\* adds to r, one for each outline element that has a text
from_xml(elems) ==
    LET kept == SelectSeq(elems, HasText)
    IN [i \in 1..Len(kept) |-> kept[i].attrib]

\* Favourites.load_from_home into a new Favourites record, from the document
\* doc of radio-curses/favourites.opml
load_from_home(doc) == from_xml(doc)

\* save_to_home(), then load_from_home() of a new Favourites record
Reload ==
    /\ loaded' = load_from_home(save_to_home(favourites))
    /\ call' = <<"reload", 0>>
    /\ UNCHANGED <<favourites, ret, rec, threadVars, viewVars, stepVars, walkVars, paintVars>>

NextFav ==
    \/ AddRecord
    \/ MoveChildUp
    \/ MoveChildDown
    \/ Reload

SpecFav == InitFav /\ [][NextFav]_vars

(* -------------------------------------------------- the rows of the window *)

\* a List over a static non-empty list, just refreshed with its cursor in
\* the window
InitPaint ==
    /\ ThreadIdle
    /\ FavIdle
    /\ rows \in 1..MaxRows
    /\ gapfix \in BOOLEAN
    /\ \E m \in 1..MaxItems :
          children = [n \in Dirs |-> IF n = Root THEN [j \in 1..m |-> j] ELSE <<>>]
    /\ record = Root
    /\ pos = [n \in Dirs |-> <<0, 0>>]
    /\ viewErr = "none"
    /\ fetches = [n \in Dirs |-> 0]
    /\ entered = {Root}
    /\ \E c0 \in 0..(rows - 1), i0 \in 0..MaxField :
          LET p == RefreshPos(c0, i0, records_len, rows)
          IN cur = p[1] /\ idx = p[2]
    /\ screen = Painted(cur, idx, records_len, rows)
    /\ steps = 0 /\ net = 0 /\ clean = TRUE

\* one more call, d = 1 for scroll_down, -1 for scroll_up and 0 for refresh:
\* the fields become p and the rows w
Painting(p, w, d) ==
    /\ steps < MaxSteps
    /\ cur' = p[1]
    /\ idx' = p[2]
    /\ screen' = w
    /\ steps' = steps + 1
    /\ net' = net + d
    /\ UNCHANGED <<treeVars, clean, threadVars, favVars, walkVars>>

\* List.scroll_down
PaintDown ==
    Painting(ScrollDownPos(cur, idx, records_len, rows),
             ScrollDownWin(screen, cur, idx, records_len, rows), 1)

\* List.scroll_up
PaintUp ==
    Painting(ScrollUpPos(cur, idx, records_len, rows),
             ScrollUpWin(screen, cur, idx, records_len, rows), -1)

\* List.refresh
PaintRefresh ==
    LET p == RefreshPos(cur, idx, records_len, rows)
    IN Painting(p, Painted(p[1], p[2], records_len, rows), 0)

NextPaint ==
    \/ PaintDown
    \/ PaintUp
    \/ PaintRefresh

SpecPaint == InitPaint /\ [][NextPaint]_vars

(* ------------------------------------------ a record without children *)

\* the None of Main.get_record
NoRecord == -1

\* Main.get_record(i): None when i is not below the number of children
get_record(i) ==
    IF ~(i < records_len) THEN NoRecord ELSE children[record][i + 1]

\* a List over a record without children, its fields holding any values, its
\* window showing nothing or what the list shown before left on it
InitEmpty ==
    /\ ThreadIdle
    /\ FavIdle
    /\ rows \in 1..MaxRows
    /\ gapfix \in BOOLEAN
    /\ children = [n \in Dirs |-> <<>>]
    /\ record = Root
    /\ pos = [n \in Dirs |-> <<0, 0>>]
    /\ viewErr = "none"
    /\ fetches = [n \in Dirs |-> 0]
    /\ entered = {Root}
    /\ cur \in 0..MaxField
    /\ idx \in 0..MaxField
    /\ \E m \in 0..MaxItems : screen = Painted(0, 0, m, rows)
    /\ steps = 0 /\ net = 0 /\ clean = TRUE

\* List.scroll_top: the fields are set, then refresh erases and paints
PaintTop ==
    LET p == ScrollTopPos(cur, idx, records_len, rows)
    IN Painting(p, Painted(p[1], p[2], records_len, rows), 0)

\* the rows after a call that returns at once on an empty list and else ends
\* with refresh
RefreshedUnlessEmpty(p) ==
    IF records_len = 0 THEN screen ELSE Painted(p[1], p[2], records_len, rows)

\* List.scroll_bottom
PaintBottom ==
    LET p == ScrollBottomPos(cur, idx, records_len, rows)
    IN Painting(p, RefreshedUnlessEmpty(p), 0)

\* List.scroll_page_down
PaintPageDown ==
    LET p == ScrollPageDownPos(cur, idx, records_len, rows)
    IN Painting(p, RefreshedUnlessEmpty(p), 0)

\* List.scroll_page_up
PaintPageUp ==
    LET p == ScrollPageUpPos(cur, idx, records_len, rows)
    IN Painting(p, RefreshedUnlessEmpty(p), 0)

\* KEY_RIGHT: Main.right(self.win.idx), counted as a call
RightCall ==
    /\ steps < MaxSteps
    /\ steps' = steps + 1
    /\ IF get_record(idx) = NoRecord
          THEN UNCHANGED <<treeVars, cur, idx, screen>>
          ELSE /\ RightTree
               /\ screen' = IF record' # record
                               THEN Painted(cur', idx', Len(children'[record']), rows)
                               ELSE screen
    /\ UNCHANGED <<net, clean, threadVars, favVars, walkVars>>

\* Enter: Main.start_player(self.win.idx), up to its status call, counted as
\* a call
StartPlayerCall ==
    /\ steps < MaxSteps
    /\ steps' = steps + 1
    /\ LET r == get_record(idx)
       IN IF r = NoRecord
             THEN UNCHANGED <<pos, threadVars>>
             ELSE /\ pos' = [pos EXCEPT ![record] = <<cur, idx>>]
                  /\ IF isaudio(r)
                        THEN /\ \E s \in Stations : KeyEnter(s)
                             /\ UNCHANGED titleVars
                        ELSE UNCHANGED threadVars
    /\ UNCHANGED <<rows, gapfix, children, record, viewErr, cur, idx>>
    /\ UNCHANGED <<net, clean, favVars, walkVars, paintVars>>

NextEmpty ==
    \/ PaintRefresh
    \/ PaintDown
    \/ PaintUp
    \/ PaintPageDown
    \/ PaintPageUp
    \/ PaintBottom
    \/ PaintTop
    \/ RightCall
    \/ StartPlayerCall

SpecEmpty == InitEmpty /\ [][NextEmpty]_vars

(* ------------------------------------------------- one record, classified *)

\* the values of the attribute 'type' in the documents
Types == {"audio", "link", "text"}

\* the attribute maps an outline element can have
Dicts ==
    UNION {[K -> {"x"} \cup Types] : K \in SUBSET {"text", "URL", "type"}}

\* a dict whose 'type' is one of Types and whose other values are texts
WellTyped(d) ==
    \A k \in DOMAIN d : (k = "type") <=> (d[k] \in Types)

\* a record of any attributes with up to MaxSub children
InitRecord ==
    /\ ThreadIdle
    /\ ViewIdle
    /\ favourites = <<>>
    /\ call = <<"none", 0>>
    /\ ret = FALSE
    /\ \E d \in Dicts, k \in 0..MaxSub :
          WellTyped(d) /\ rec = [d |-> d, kids |-> k]
    /\ loaded = <<>>

\* one call on the record: nothing else moves
OnRecord == UNCHANGED <<favourites, loaded, threadVars, viewVars, stepVars, walkVars, paintVars>>

\* Record.isdir()
IsDir ==
    /\ call' = <<"isdir", 0>>
    /\ ret' = isdir_of(rec.d, rec.kids)
    /\ UNCHANGED rec
    /\ OnRecord

\* Record.isaudio()
IsAudio ==
    /\ call' = <<"isaudio", 0>>
    /\ ret' = isaudio_of(rec.d, rec.kids)
    /\ UNCHANGED rec
    /\ OnRecord

\* Record.add_dict(d): one more child
AddDict ==
    /\ rec.kids < MaxSub
    /\ rec' = [rec EXCEPT !.kids = @ + 1]
    /\ call' = <<"add_dict", 0>>
    /\ UNCHANGED ret
    /\ OnRecord

\* Record.__delitem__(i): one child less
DelItem ==
    /\ rec.kids > 0
    /\ rec' = [rec EXCEPT !.kids = @ - 1]
    /\ call' = <<"delitem", 0>>
    /\ UNCHANGED ret
    /\ OnRecord

NextRecord ==
    \/ IsDir
    \/ IsAudio
    \/ AddDict
    \/ DelItem

SpecRecord == InitRecord /\ [][NextRecord]_vars

(* ======================================================= properties: Spec *)

\* C1: Mpv.send_command never raises into its caller: no outcome of connect,
\* sendall or the read ends the poller thread with an exception.
C1_NeverRaises == pollErr = "none"

\* the UI thread is inside the Mpv.stop that Main.shutdown calls, or past it
InShutdownStop ==
    \/ msCont = "sd_exit" /\ uiPc \in {"ms_term", "ms_wait", "ms_rm", "sd_exit"}
    \/ uiPc = "exited"

\* C2: once the poller thread was started, the Mpv.stop of the shutdown (and
\* the exit) come only after the cancellation Event was set and the poller
\* thread has exited.
C2_ShutdownOrder ==
    (InShutdownStop /\ thread_meta = "started") => (stop_meta /\ ~PollerAlive)

\* the poller is between win.erase() and the end of its Main.status
PollWriting == pollPc \in {"st_erase", "st_add", "st_rel"}

\* the UI thread is in the middle of a write to the status row: inside
\* Main.status, or in Main.refresh_all between screen.erase() and the border
UIWriting == uiPc \in {"st_erase", "st_add", "st_rel", "ra_border"}

\* C3: the two threads are never both in the middle of a write to the status
\* row: while the poller is inside its erase, write, flush the UI thread is
\* not in the middle of a write of its own, and the poller holds status_lock.
C3_StatusExclusive ==
    PollWriting => (~UIWriting /\ status_lock.owner = "poll")

\* the response carries 'data' with a non-empty 'icy-title'
HasTitle(r) == r.data /\ r.title # <<>> /\ r.title[1] # <<>>

\* the poller takes the step from the response to the choice
Decides == pollPc = "decide" /\ pollPc' # "decide"

\* C7, step by step: what a cycle does with a titled response, and with {}
C7_Step ==
    /\ (Decides /\ HasTitle(resp)) =>
          LET t == <<rstrip(resp.title[1])>>
          IN /\ (pollPc' = "fmt") <=> (t # prev_song \/ refresh_meta)
             /\ pollPc' = "fmt" => prev_song' = t /\ song' = t
             /\ pollPc' # "fmt" => pollPc' = "wait5" /\ prev_song' = prev_song
    /\ (Decides /\ ~resp.data) =>
          /\ pollPc' = "wait5"
          /\ UNCHANGED <<prev_song, refresh_meta, statusWin>>
    /\ (pollPc = "fmt" /\ pollPc' # "fmt" /\ song # <<>>) =>
          pollText' = SongText(radio, song[1])
    /\ (pollPc = "st_add" /\ pollPc' # "st_add") => statusWin' = pollText
    /\ (pollPc = "clear" /\ pollPc' # "clear" /\ pollText.kind = "song") =>
          /\ ~refresh_meta'
          /\ prev_song' = <<pollText.title>>

\* C7: a cycle whose response has a non-empty title publishes
\* '<station>: <trimmed title>' exactly when the trimmed title differs from
\* the last announced one or the refresh Event is set; after it the last
\* announced title is the trimmed title and the Event is clear. A cycle whose
\* response has no payload publishes nothing and changes neither.
C7_PublishTitle == [][C7_Step]_vars

\* a title was published: the poller is about to clear the Event
C7_Witness ==
    /\ pollPc = "clear"
    /\ pollText.kind = "song"
    /\ statusWin = pollText
    /\ prev_song = <<pollText.title>>

\* the response carries 'data' but no (or an empty) 'icy-title'
NoTitle(r) == r.data /\ ~HasTitle(r)

\* C8 as stated: a title-less payload after an announced title makes the
\* poller publish the bare station name.
C8_BareAfterTitle ==
    [][(Decides /\ NoTitle(resp) /\ prev_song # <<>>) => pollPc' = "fmt"]_vars

\* C8 amended, step by step
C8_Step ==
    /\ (Decides /\ NoTitle(resp)) =>
          /\ (pollPc' = "fmt") <=> refresh_meta
          /\ pollPc' = "fmt" => prev_song' = <<>> /\ song' = <<>>
          /\ pollPc' # "fmt" => pollPc' = "wait5" /\ prev_song' = prev_song
    /\ (pollPc = "fmt" /\ pollPc' # "fmt" /\ song = <<>>) =>
          pollText' = BareText(radio)
    /\ (pollPc = "clear" /\ pollPc' # "clear" /\ pollText.kind = "bare") =>
          /\ ~refresh_meta'
          /\ prev_song' = <<>>

\* C8 amended: a cycle whose payload has no title publishes the bare station
\* name exactly when the refresh Event is set, whatever was announced before;
\* it then forgets the last announced title and clears the Event; with the
\* Event clear it publishes nothing and keeps the last announced title.
C8_BareOnRefresh == [][C8_Step]_vars

\* the bare station name was published
C8_Witness ==
    /\ pollPc = "clear"
    /\ pollText.kind = "bare"
    /\ statusWin = pollText
    /\ prev_song = <<>>

\* C9: a send_command that found the socket file absent returns only after a
\* retry wait, connect is never attempted while the file is absent, and a
\* cancelled retry wait makes it return {}.
C9_WaitsForSocket ==
    /\ (pollPc = "decide" /\ scAbsent) => scWaits
    /\ ~connAbsent
    /\ (pollPc = "decide" /\ scCancelled) => resp = EmptyResp

\* the UI thread executes subprocess.Popen
Spawns == uiPc = "sp_popen" /\ uiPc' = "sp_assign"

\* C10, step by step
C10_Step ==
    /\ Cardinality(alive') <= 1
    /\ Spawns =>
          /\ prevProc # NoProc => prevProc \in termSent /\ prevProc \notin alive
          /\ ~socketFile
          /\ proc = NoProc

\* C10: at most one spawned player is alive; Mpv.start spawns only after the
\* previous process was sent the terminate signal and has exited, and after
\* the socket file was removed.
C10_OnePlayer == [][C10_Step]_vars

\* a second player was spawned after the first was terminated and waited for
C10_Witness ==
    /\ uiPc = "sp_assign"
    /\ prevProc # NoProc
    /\ alive = {uiNew}

\* the UI thread executes the last statements of Mpv.stop and returns from it
StopReturns == uiPc = "ms_rm" /\ uiPc' \in {"sp_popen", "sd_exit"}

\* C11: when Mpv.stop returns, Mpv.proc is None, no player spawned by the
\* session is alive and the socket file does not exist.
C11_StopLeavesNothing ==
    [][StopReturns => (proc' = NoProc /\ alive' = {} /\ ~socketFile')]_vars

\* a poller thread begins to run
ThreadCreated == ~PollerAlive /\ PollerAlive'

\* C12, step by step
C12_Step ==
    /\ ThreadCreated =>
          /\ uiPc = "sp_thread"
          /\ thread_meta = "none" /\ pollPc = "notstarted"
          /\ thread_meta' = "started"
    /\ (uiPc = "sp_thread" /\ uiPc' = "idle" /\ thread_meta = "none") => ThreadCreated
    /\ thread_meta = "started" => thread_meta' = "started"
    /\ thread_meta = "none" <=> pollPc = "notstarted"

\* C12: a poller thread is created only by a start_player call that finds
\* no Thread object in Main.thread_meta, the object stays there for good, so
\* no later start_player call creates another, whether or not the first
\* thread is still running.
C12_OnePoller == [][C12_Step]_vars

\* a later start_player call reaches its test after the poller has ended
C12_Witness ==
    /\ uiPc = "sp_thread"
    /\ thread_meta = "started"
    /\ ~PollerAlive

\* C25: once connected, send_command returns whatever the peer does: the read
\* loop of socket2json is never left reading zero bytes again and again from
\* a peer that closed the connection.
C25_ReadLoopEnds == pollPc # "sc_spin"

\* C26: once shutdown is begun it completes: while Main.shutdown waits in
\* thread_meta.join() the poller thread, unless it is caught in the read loop
\* of C25, always has a step to take towards its exit; the join and the status
\* lock never block each other.
C26_ShutdownCompletes ==
    (uiPc = "sd_join" /\ PollerAlive /\ pollPc # "sc_spin")
        => ENABLED PollNext

\* C27: a published line '<station>: <title>' names the station whose player
\* process sent the title: what the poller is about to write, or is writing,
\* under a title pairs it with the station that process was started for.
C27_TitleOfStation ==
    (pollPc \in {"st_acq", "st_erase", "st_add", "st_rel"}
        /\ pollText.kind = "song")
        => pollText.st = heard

\* the poller has a reply with a payload in hand
Answered == pollPc = "decide" /\ resp.data

\* start_player has written 'Start <station> ...' for a station other than
\* the one the current player plays, and the poller is running
Switching ==
    /\ statusWin = StartText(radio)
    /\ PollerAlive
    /\ proc # NoProc
    /\ playing[proc] \notin {"", radio}

\* C28: if the player keeps answering the metadata queries with a payload,
\* the 'Start <station> ...' text written by a switch to another station
\* does not stay on the status line for ever.
C28_StartTextLeaves ==
    ([]<>Answered) => [](Switching => <>(statusWin.kind # "start"))

(* =================================================== properties: SpecView *)

\* C4: over a non-empty child list, after any keys of the list and any
\* right() and left(), 0 <= cur < rows and idx >= 0.
C4_CursorInWindow ==
    records_len > 0 => (0 <= cur /\ cur < rows /\ idx >= 0)

\* inside a fetched directory longer than the window, at its last record
C4_Witness ==
    /\ record # Root
    /\ records_len > rows
    /\ idx = records_len - 1
    /\ cur = rows - 1

\* C5 as stated: List.idx + List.cur is a valid child index.
C5_AnchorPlusCursor ==
    records_len > 0 => (0 <= idx + cur /\ idx + cur < records_len)

\* C5 amended: List.idx is the highlighted child and idx - cur the child
\* painted in row 0; over a non-empty list both are valid child indices,
\* 0 <= idx - cur <= idx < length.
C5_HighlightedValid ==
    records_len > 0 => (0 <= idx - cur /\ idx - cur <= idx /\ idx < records_len)

\* the highlighted child is valid although idx + cur is past the end
C5_Witness ==
    /\ records_len > 0
    /\ idx + cur >= records_len
    /\ 0 <= idx - cur /\ idx < records_len
    /\ cur > 0

\* the fields p over n children in r rows: 0 <= cur <= idx < n and cur < r
Inside(p, n, r) == 0 <= p[1] /\ p[1] <= p[2] /\ p[2] < n /\ p[1] < r

\* C21: a move_up or move_down of the highlighted child that succeeds leaves
\* the same record highlighted, at its new place, with 0 <= cur <= idx <
\* length and cur < rows; one that does not succeed leaves cur, idx and the
\* order of the children.
C21_MoveKeepsRecord ==
    records_len > 0 =>
       LET l == children[record]
           n == records_len
           u == move_up(l, cur, idx, rows)
           d == move_down(l, cur, idx, rows)
       IN /\ IF idx > 0
                THEN /\ u.l # l
                     /\ u.l[u.p[2] + 1] = l[idx + 1]
                     /\ Inside(u.p, n, rows)
                ELSE u.l = l /\ u.p = <<cur, idx>>
          /\ IF idx < n - 1
                THEN /\ d.l # l
                     /\ d.l[d.p[2] + 1] = l[idx + 1]
                     /\ Inside(d.p, n, rows)
                ELSE d.l = l /\ d.p = <<cur, idx>>

\* outline 1, first in the root document, was moved down twice and is
\* highlighted at the bottom of the root
C21_Witness ==
    /\ record = Root
    /\ records_len = MaxLen
    /\ children[Root][MaxLen] = 1
    /\ idx = MaxLen - 1

(* =================================================== properties: SpecList *)

\* C13: on a non-empty list scroll_page_down adds rows to idx when
\* idx + rows < length and else lands on the last child, painted on the bottom
\* row when length >= rows; scroll_page_up takes rows from idx when
\* idx - rows >= 0 and else lands on child 0 with cur = 0.
C13_PageMoves ==
    records_len > 0 =>
       LET n == records_len
           d == ScrollPageDownPos(cur, idx, n, rows)
           u == ScrollPageUpPos(cur, idx, n, rows)
       IN /\ idx + rows < n => d[2] = idx + rows
          /\ ~(idx + rows < n) =>
                (d[2] = n - 1 /\ (n >= rows => d[2] - d[1] + rows = n))
          /\ idx - rows >= 0 => u[2] = idx - rows
          /\ idx - rows < 0 => u = <<0, 0>>

\* C14: on a non-empty list, whatever the rows, scroll_bottom leaves the
\* highlighted row showing the last child and scroll_top showing child 0; a
\* scroll_up right after scroll_bottom, on two children or more, leaves it
\* showing the child before the last.
C14_JumpThenStep ==
    records_len > 0 =>
       LET n == records_len
           b == ScrollBottomPos(cur, idx, n, rows)
           t == ScrollTopPos(cur, idx, n, rows)
           u == ScrollUpPos(b[1], b[2], n, rows)
       IN /\ b[2] = n - 1 /\ RowChild(b[1], b[2], n, rows, b[1]) = n - 1
          /\ t[2] = 0 /\ RowChild(t[1], t[2], n, rows, t[1]) = 0
          /\ n >= 2 => (u[2] = n - 2 /\ RowChild(u[1], u[2], n, rows, u[1]) = n - 2)

\* scroll_bottom and then scroll_up were made in a list longer than the window
C14_Witness ==
    /\ rows >= 2
    /\ records_len > rows
    /\ idx = records_len - 2
    /\ cur = rows - 2

(* ================================================ properties: SpecRefresh *)

\* C15: a refresh that follows a refresh, with nothing changed in between,
\* leaves cur and idx, and with them the child painted on every row, as the
\* first refresh left them.
C15_RefreshIdempotent ==
    [][(steps >= 1 /\ steps' = steps + 1) =>
          /\ cur' = cur /\ idx' = idx
          /\ \A k \in 0..(rows - 1) :
                RowChild(cur', idx', records_len, rows, k)
                   = RowChild(cur, idx, records_len, rows, k)]_vars

\* refresh was called twice over a list longer than the window, from fields
\* that left idx on the last child
C15_Witness ==
    /\ steps = 2
    /\ records_len > rows
    /\ idx = records_len - 1
    /\ cur = rows - 1

(* ==================================================== properties: SpecNav *)

\* C18: Main.right calls from_url at most once for every directory, whatever
\* the first call returned.
C18_FetchedOnce == \A n \in Dirs : fetches[n] <= 1

\* what a step that lists another directory does to the positions
C20_Step ==
    /\ \A n \in Dirs : n # record => pos'[n] = pos[n]
    /\ (record' # record /\ Parent(record') = record) => pos'[record] = <<cur, idx>>
    /\ (record # Root /\ record' = Parent(record)) => <<cur', idx'>> = pos[record']
    /\ (record' # record /\ record' \notin entered /\ viewErr' = "none") =>
          <<cur', idx'>> = <<0, 0>>

\* C20: with the rows unchanged, right() saves the (cur, idx) of the directory
\* it leaves, nothing changes the saved position of a directory that is not
\* the one listed, and left() shows the parent at exactly its saved position;
\* a directory listed for the first time is shown at (0, 0).
C20_PositionKept == [][C20_Step]_vars

\* back at the root, at the place of outline 2, after the walk went down
\* through outline 2 into the directory 31
C20_Witness ==
    /\ record = Root
    /\ 31 \in entered
    /\ <<cur, idx>> = <<1, 1>>
    /\ pos[2] # <<0, 0>>

\* C19: no failure of the request or of the parse leaves Main.right: the
\* directory is shown with no children and the keys go on being served.
C19_FailureShowsEmpty == viewErr = "none"

(* ==================================================== properties: SpecFav *)

\* no two favourites have the same URL
NoTwoShareURL ==
    \A i, j \in 1..Len(favourites) :
        URLOf(favourites[i]) = URLOf(favourites[j]) => i = j

\* what a step that is the call add_record(r) does
C16_Step ==
    \A r \in Offered :
        call' = <<"add", r>> =>
            IF ~isaudio(r) \/ r \in Loaded
               THEN favourites' = favourites /\ ret' = FALSE
            ELSE IF \E i \in 1..Len(favourites) : URLOf(favourites[i]) = URLOf(r)
               THEN /\ ret' = FALSE
                    /\ Len(favourites') = Len(favourites)
                    /\ \E i \in 1..Len(favourites) :
                          /\ URLOf(favourites[i]) = URLOf(r)
                          /\ favourites'[i] = r
                          /\ \A j \in 1..Len(favourites) :
                                j # i => favourites'[j] = favourites[j]
            ELSE favourites' = Append(favourites, r) /\ ret' = TRUE

\* C16: add_record(r) changes nothing and returns false when r is not
\* playable or is a child of the favourites record; else it puts r in the
\* place of a favourite with the same URL, every other place and the count
\* unchanged, and returns false; else it appends r and returns true.  No two
\* favourites ever share a URL.
C16_AddRecord == [][C16_Step /\ NoTwoShareURL']_vars

\* add_record returned false for a playable record of the tree: the record
\* took the place of a favourite with its URL, among two favourites
C16_Witness ==
    /\ call[1] = "add"
    /\ ~ret
    /\ isaudio(call[2]) /\ call[2] \notin Loaded
    /\ Len(favourites) >= 2
    /\ favourites[2] = call[2]

\* the places (1-based) of l that hold x
Places(l, x) == {k \in 1..Len(l) : l[k] = x}

\* l2 is l with the children at the 0-based indexes i and j exchanged and
\* every other child in its place
Exchanged(l, l2, i, j) ==
    /\ Len(l2) = Len(l)
    /\ l2[i + 1] = l[j + 1]
    /\ l2[j + 1] = l[i + 1]
    /\ \A k \in 1..Len(l) : k \notin {i + 1, j + 1} => l2[k] = l[k]
    /\ \A x \in Offered : Cardinality(Places(l2, x)) = Cardinality(Places(l, x))

\* what a step that is the call move_child_up(i) or move_child_down(i) does
C17_Step ==
    LET n == Len(favourites)
    IN \A i \in 0..(n - 1) :
          /\ call' = <<"up", i>> =>
                IF i = 0 THEN ret' = FALSE /\ favourites' = favourites
                ELSE ret' = TRUE /\ Exchanged(favourites, favourites', i, i - 1)
          /\ call' = <<"down", i>> =>
                IF i = n - 1 THEN ret' = FALSE /\ favourites' = favourites
                ELSE ret' = TRUE /\ Exchanged(favourites, favourites', i, i + 1)

\* C17: move_child_up(0) and move_child_down(last index) return false and
\* leave the order of the children; for every other valid index the call
\* returns true, the child at i and the sibling before it (after it) exchange
\* places, every other child keeps its place and no child is lost or doubled.
C17_MoveChild == [][C17_Step]_vars

\* move_child_down(1) returned true on three favourites
C17_Witness ==
    /\ call = <<"down", 1>>
    /\ ret
    /\ Len(favourites) = 3

C24_PaintsAsRefresh ==
    /\ \A k \in 0..(rows - 1) :
          screen[k] = [child |-> RowChild(cur, idx, records_len, rows, k), hl |-> (k = cur)]
    /\ Cardinality({k \in 0..(rows - 1) : screen[k].hl}) = 1
    /\ RefreshPos(cur, idx, records_len, rows) = <<cur, idx>>
    /\ Painted(cur, idx, records_len, rows) = screen

\* after three calls, one scroll_up more than scroll_down, child 0 is
\* highlighted on row 0 of two rows over a longer list
C24_Witness ==
    /\ steps = 3
    /\ net = -1
    /\ rows = 2
    /\ records_len > rows
    /\ screen[0] = [child |-> 0, hl |-> TRUE]
    /\ screen[1] = [child |-> 1, hl |-> FALSE]

(* ================================================= properties: SpecRecord *)

\* directory, as the claim words it
Directory(r) ==
    r.kids > 0 \/ "URL" \notin DOMAIN r.d \/ ("type" \in DOMAIN r.d /\ r.d["type"] = "link")

\* playable, as the claim words it
Playable(r) ==
    /\ ~Directory(r)
    /\ "type" \in DOMAIN r.d /\ r.d["type"] = "audio"
    /\ "URL" \in DOMAIN r.d

\* what a step that is the call isdir() or isaudio() returns
C22_Step ==
    /\ call' = <<"isdir", 0>> => (ret' <=> Directory(rec'))
    /\ call' = <<"isaudio", 0>> => (ret' <=> Playable(rec'))

\* C22: isdir() and isaudio() answer from the attributes and the children
\* the record has at the call: isdir iff it has children or no URL or type
\* 'link'; isaudio iff not isdir and type 'audio' and a URL; never both, and
\* never isaudio without a URL.
C22_Classified ==
    [][/\ C22_Step
       /\ ~(isdir_of(rec'.d, rec'.kids) /\ isaudio_of(rec'.d, rec'.kids))
       /\ "URL" \notin DOMAIN rec'.d => ~isaudio_of(rec'.d, rec'.kids)]_vars

\* isdir() said yes for an 'audio' record with URL that has one child
C22_Witness ==
    /\ call = <<"isdir", 0>>
    /\ ret
    /\ rec.kids = 1
    /\ "URL" \in DOMAIN rec.d
    /\ "type" \in DOMAIN rec.d /\ rec.d["type"] = "audio"

(* ================================================== properties: SpecSteps *)

Clamp(x, lo, hi) == IF x < lo THEN lo ELSE IF x > hi THEN hi ELSE x

\* C6 as stated: after a sequence of scroll_down / scroll_up calls no longer
\* than the list, from the top, idx is the net count clamped to 0 .. length-1.
C6_ClampOfNet ==
    steps <= records_len => idx = Clamp(net, 0, records_len - 1)

\* C6 amended: idx stays in 0 .. length-1, and it equals the net count of the
\* calls when no call was made at a boundary, that is when the net count of
\* every prefix of the calls was in 0 .. length-1; a call at a boundary is
\* ignored, it is not made up for by a later call.
C6_NetWhileInside ==
    /\ 0 <= idx /\ idx < records_len
    /\ clean => idx = net

\* downs and ups were made, none at a boundary, in a list longer than the window
C6_Witness ==
    /\ clean
    /\ steps > net
    /\ net > 0
    /\ idx = net
    /\ records_len > rows

\* C30: the window never shows a gap at the bottom that it could avoid: on a
\* non-empty list, after refresh and any keys of the List, the first child
\* shown, idx - cur, is child 0 when all children fit in the rows, and else
\* leaves no row below the last child.
C30_NoGapAtBottom ==
    records_len > 0 =>
       LET top == idx - cur
       IN IF records_len <= rows THEN top = 0 ELSE top + rows <= records_len

(* ================================================= properties: SpecResize *)

\* C29: the cursor stays inside the window whatever the terminal does: with
\* the List of curses_utils/list1.py, after every key and every resize, the
\* cursor row of a non-empty list is one of the rows of the window.
C29_CursorInside ==
    (gapfix /\ viewErr = "none" /\ records_len > 0) => cur < rows

(* ================================================== properties: SpecEmpty *)

\* a step paints no row: every row keeps what it held or is erased
NoRowPainted == \A k \in DOMAIN screen : screen'[k] \in {screen[k], EmptyRow}

C31_Step ==
    records_len = 0 =>
       /\ NoRowPainted
       /\ \/ <<cur', idx'>> = <<cur, idx>>
          \/ PaintTop /\ <<cur', idx'>> = <<0, 0>>
       /\ record' = record
       /\ UNCHANGED threadVars

\* C31: over a record without children refresh and the six scroll calls paint
\* no row, hence show no text of a record, and leave cur and idx as they were,
\* but scroll_top, which sets both to 0; right and start_player on the current
\* index change neither the current record nor the state of the player and of
\* the poller.
C31_EmptyListInert == [][C31_Step]_vars

\* three calls, a scroll_down among them, were made on a List over no
\* children whose fields had been set to 0
C31_Witness ==
    /\ records_len = 0
    /\ steps = 3
    /\ net = 1
    /\ cur = 0 /\ idx = 0
    /\ \A k \in DOMAIN screen : screen[k] = EmptyRow

====
